---- MODULE Spec2Model ----
(***************************************************************************)
(* CHIP-8 interpreter (clint07/CHIP-8-Go): the CPU (type CPU), the driver  *)
(* loop Chip8.Run and the input boundary PPU.Poll, as a state machine.     *)
(*                                                                         *)
(* The CPU struct is the record-valued variable cpu; every instruction     *)
(* handler is an operator from a CPU record to a result record             *)
(* [cpu, err, crash]: err is the error value the handler returns ("nil"    *)
(* when none), crash is TRUE when the Go runtime panics inside the handler *)
(* (an index out of range), in which case cpu holds the writes made before *)
(* the panic.                                                              *)
(*                                                                         *)
(* The two large arrays are held sparsely: RAM is a function from the      *)
(* addresses of its non-zero bytes to those bytes (RamAt reads it, RamPut  *)
(* writes it), and GFX is the set of the <<row, column>> pairs of the      *)
(* pixels that are 1 (GfxAt reads it; the code stores only 0 and 1).       *)
(***************************************************************************)
EXTENDS Integers, Sequences, FiniteSets, TLC

VARIABLES
    cpu,      \* the CPU struct: RAM, GFX, Stack, V, PC, SP, I, DT, ST, Key, DF
    events,   \* the SDL event queue read by sdl.PollEvent
    pc,       \* position of main and Chip8.Run: "load", "tick", "loadKey" (inside CPU.loadKey),
              \* "poll" (CPU.Cycle returned from Fx0A, PPU.Poll not yet called), "stalled", "halted"
    waitVx,   \* the argument vx of the CPU.loadKey call in progress
    opCode,   \* the opcode fetched by the last CPU.Cycle
    err,      \* the error returned by the last CPU.Cycle
    halt,     \* why Run stopped: "none", "fault" (panic(err)), "crash" (runtime panic)
    exit,     \* the value returned by the last PPU.Poll
    ticks,    \* instruction ticks taken by Run so far
    dtDecs,   \* executions of cpu.DT -= 1 so far
    stDecs,   \* executions of cpu.ST -= 1 so far
    screen,   \* the frame last presented by PPU.Draw: the set of lit pixels
    gfxBefore, \* cpu.GFX when the last CPU.Cycle was called
    fetchPC,  \* the address passed to the last call of CPU.getOpCode, -1 before the first
    depth,    \* calls of CPU.call that returned nil minus calls of CPU.ret that returned nil
    saved,    \* V, I and vx of the last CPU.saveV that returned (vx = -1 before the first)
    file,     \* the ROM file named on the command line: whether it can be read, its bytes
    held,     \* held[k]: the last event the host delivered for key k was a key-down
    fps       \* the value of the -fps flag, a sequence of characters

vars ==
    <<cpu, events, pc, waitVx, opCode, err, halt, exit, ticks, dtDecs, stDecs, screen,
      gfxBefore, fetchPC, depth, saved, file, held, fps>>

----------------------------------------------------------------------------
(* Bounds of the model *)

MaxTicks == 18
MaxQueue == 2

(* Program constants *)

RamSize == 4096
GfxRows == 32
GfxCols == 64
StackLen == 16
NumRegs == 16
NumKeys == 16
RomStart == 512
CyclePcLimit == 4094
JumpPcLimit == 4028
RandN == 255

Nil == "nil"
ErrJump == "jump: program counter out of bound"
ErrCallPC == "call: program counter out of bound"
ErrCallSP == "call: stack pointer out of bound"
ErrRet == "stack pointer out of bound"
ErrDrawY == "draw: Y out of bounds"
ErrDrawX == "draw: X out of bounds"

----------------------------------------------------------------------------
(* Fixed-width integer arithmetic of Go *)

U8(n) == n % 256
U16(n) == n % 65536

RECURSIVE And(_, _)
And(a, b) ==
    IF a = 0 \/ b = 0 THEN 0
    ELSE (IF a % 2 = 1 /\ b % 2 = 1 THEN 1 ELSE 0) + 2 * And(a \div 2, b \div 2)

RECURSIVE Or(_, _)
Or(a, b) ==
    IF a = 0 THEN b
    ELSE IF b = 0 THEN a
    ELSE (IF a % 2 = 1 \/ b % 2 = 1 THEN 1 ELSE 0) + 2 * Or(a \div 2, b \div 2)

RECURSIVE Xor(_, _)
Xor(a, b) ==
    IF a = 0 THEN b
    ELSE IF b = 0 THEN a
    ELSE (IF a % 2 # b % 2 THEN 1 ELSE 0) + 2 * Xor(a \div 2, b \div 2)

RECURSIVE Pow2(_)
Pow2(n) == IF n = 0 THEN 1 ELSE 2 * Pow2(n - 1)

Shr(a, n) == a \div Pow2(n)
Shl8(a, n) == U8(a * Pow2(n))

----------------------------------------------------------------------------
(* CPU.Init, CPU.loadFont, CPU.LoadROM *)

fonts ==
    << 240, 144, 144, 144, 240,
       32, 96, 32, 32, 112,
       240, 16, 240, 128, 240,
       240, 16, 240, 16, 240,
       160, 160, 240, 32, 32,
       240, 128, 240, 16, 240,
       240, 128, 240, 144, 240,
       240, 16, 32, 64, 64,
       240, 144, 240, 144, 240,
       240, 144, 240, 16, 240,
       240, 144, 240, 144, 144,
       224, 144, 224, 144, 224,
       240, 128, 128, 128, 240,
       224, 144, 144, 144, 224,
       240, 128, 240, 128, 240,
       240, 128, 240, 128, 128 >>

keypad ==
    [sc \in {"1", "2", "3", "Q", "W", "E", "A", "S", "D", "X", "Z", "C", "4", "R", "F", "V"} |->
        CASE sc = "1" -> 1  [] sc = "2" -> 2  [] sc = "3" -> 3  [] sc = "Q" -> 4
          [] sc = "W" -> 5  [] sc = "E" -> 6  [] sc = "A" -> 7  [] sc = "S" -> 8
          [] sc = "D" -> 9  [] sc = "X" -> 0  [] sc = "Z" -> 10 [] sc = "C" -> 11
          [] sc = "4" -> 12 [] sc = "R" -> 13 [] sc = "F" -> 14 [] sc = "V" -> 15]

(* RAM[a] and RAM[a] = b, for a in 0..RamSize-1 *)
RamAt(ram, a) == IF a \in DOMAIN ram THEN ram[a] ELSE 0

RamPut(ram, a, b) ==
    [x \in (IF b = 0 THEN DOMAIN ram \ {a} ELSE DOMAIN ram \cup {a}) |->
        IF x = a THEN b ELSE ram[x]]

(* GFX[row][col], for row in 0..GfxRows-1 and col in 0..GfxCols-1 *)
GfxAt(gfx, row, col) == IF <<row, col>> \in gfx THEN 1 ELSE 0

GfxPut(gfx, row, col, b) ==
    IF b = 0 THEN gfx \ {<<row, col>>} ELSE gfx \cup {<<row, col>>}

ZeroCPU ==
    [RAM   |-> <<>>,
     GFX   |-> {},
     Stack |-> [s \in 0..(StackLen - 1) |-> 0],
     V     |-> [r \in 0..(NumRegs - 1) |-> 0],
     PC    |-> 0,
     SP    |-> 0,
     I     |-> 0,
     DT    |-> 0,
     ST    |-> 0,
     Key   |-> [k \in 0..(NumKeys - 1) |-> FALSE],
     DF    |-> FALSE]

loadFont(c) ==
    [c EXCEPT !.RAM = [a \in {x \in 0..(RamSize - 1) :
                                  (IF x < Len(fonts) THEN fonts[x + 1] ELSE RamAt(c.RAM, x)) # 0} |->
                          IF a < Len(fonts) THEN fonts[a + 1] ELSE c.RAM[a]]]

(* A loader that copies the ROM to address 0 *)
LoadROM_AtZero(c, rom) ==
    [c EXCEPT !.PC = RomStart,
              !.RAM = [a \in {x \in 0..(RamSize - 1) :
                                  (IF x < Len(rom) THEN rom[x + 1] ELSE RamAt(c.RAM, x)) # 0} |->
                          IF a < Len(rom) THEN rom[a + 1] ELSE c.RAM[a]]]

LoadROM(c, rom) ==
    [c EXCEPT !.PC = RomStart,
              !.RAM = [a \in {x \in 0..(RamSize - 1) :
                                  (IF x >= RomStart /\ x < RomStart + Len(rom)
                                   THEN rom[x - RomStart + 1] ELSE RamAt(c.RAM, x)) # 0} |->
                          IF a >= RomStart /\ a < RomStart + Len(rom)
                          THEN rom[a - RomStart + 1] ELSE c.RAM[a]]]

----------------------------------------------------------------------------
(* Results of a handler: the CPU after it, the error it returns, and       *)
(* whether the Go runtime panicked inside it.                              *)

(* CPU.LoadROM on a file that was read: the copy loop indexes RAM[PC+i]    *)
(* unchecked, so a ROM longer than RamSize - RomStart bytes ends in a      *)
(* runtime panic, after the bytes that fit were copied.                    *)
LoadROMPanics(rom) == RomStart + Len(rom) > RamSize

ErrRead == "open: no such file or directory"
ErrAtoi == "strconv.Atoi: parsing: invalid syntax"

Ok(c) == [cpu |-> c, err |-> Nil, crash |-> FALSE]
Fail(c, e) == [cpu |-> c, err |-> e, crash |-> FALSE]
Crash(c) == [cpu |-> c, err |-> Nil, crash |-> TRUE]

AdvancePC(c) == [c EXCEPT !.PC = U16(c.PC + 2)]

(* CPU.getOpCode: RAM[PC]<<8 | RAM[PC+1] *)
getOpCode(c, PC) == Or(RamAt(c.RAM, PC) * 256, RamAt(c.RAM, PC + 1))

(* Instruction 00E0 *)
clear(c) ==
    AdvancePC([c EXCEPT !.GFX = {}, !.DF = TRUE])

(* Instruction 00EE.  SP is a uint16: SP -= 1 wraps, and SP < 0 never holds. *)
ret(c) ==
    LET sp == U16(c.SP - 1 + 65536)
        c1 == [c EXCEPT !.SP = sp]
    IN  IF sp < 0 THEN Fail(c1, ErrRet)
        ELSE IF sp >= StackLen THEN Crash(c1)
        ELSE Ok([c1 EXCEPT !.PC = U16(c1.Stack[sp] + 2)])

(* Instruction 1nnn *)
jump(c, nnn) ==
    LET c1 == [c EXCEPT !.PC = nnn]
    IN  IF c1.PC > JumpPcLimit THEN Fail(c1, ErrJump) ELSE Ok(c1)

(* Instruction 2nnn *)
call(c, nnn) ==
    IF c.SP >= StackLen THEN Crash(c)
    ELSE LET c1 == [c EXCEPT !.Stack[c.SP] = c.PC]
             c2 == [c1 EXCEPT !.PC = nnn]
             c3 == [c2 EXCEPT !.SP = U16(c2.SP + 1)]
         IN  IF c2.PC > JumpPcLimit THEN Fail(c2, ErrCallPC)
             ELSE IF c3.SP > StackLen THEN Fail(c3, ErrCallSP)
             ELSE Ok(c3)

(* Instructions 3xkk, 4xkk, 5xy0, 9xy0 *)
(* An SE Vx, byte that never skips *)
skipIf_NoSkip(c, vx, kk) ==
    AdvancePC(c)

skipIf(c, vx, kk) ==
    AdvancePC(IF c.V[vx] = kk THEN AdvancePC(c) ELSE c)

skipIfNot(c, vx, kk) ==
    AdvancePC(IF c.V[vx] # kk THEN AdvancePC(c) ELSE c)

(* An SE Vx, Vy that compares the register indices *)
skipIfXY_Index(c, vx, vy) ==
    AdvancePC(IF vx = vy THEN AdvancePC(c) ELSE c)

skipIfXY(c, vx, vy) ==
    AdvancePC(IF c.V[vx] = c.V[vy] THEN AdvancePC(c) ELSE c)

skipIfNotXY(c, vx, vy) ==
    AdvancePC(IF c.V[vx] # c.V[vy] THEN AdvancePC(c) ELSE c)

(* Instructions 6xkk, 7xkk *)
load(c, vx, kk) == AdvancePC([c EXCEPT !.V[vx] = kk])

add(c, vx, kk) == AdvancePC([c EXCEPT !.V[vx] = U8(c.V[vx] + kk)])

(* Instructions 8xy0 .. 8xyE *)
loadXY(c, vx, vy) == AdvancePC([c EXCEPT !.V[vx] = c.V[vy]])

orXY(c, vx, vy) == AdvancePC([c EXCEPT !.V[vx] = Or(c.V[vx], c.V[vy])])

andXY(c, vx, vy) == AdvancePC([c EXCEPT !.V[vx] = And(c.V[vx], c.V[vy])])

xorXY(c, vx, vy) == AdvancePC([c EXCEPT !.V[vx] = Xor(c.V[vx], c.V[vy])])

(* An ADD Vx, Vy that leaves VF alone *)
addXY_NoCarry(c, vx, vy) ==
    AdvancePC([c EXCEPT !.V[vx] = U8(c.V[vx] + c.V[vy])])

addXY(c, vx, vy) ==
    LET num == c.V[vx] + c.V[vy]
        c1 == [c EXCEPT !.V[15] = IF num > 255 THEN 1 ELSE 0]
    IN  AdvancePC([c1 EXCEPT !.V[vx] = U8(num)])

subXY(c, vx, vy) ==
    LET c1 == [c EXCEPT !.V[15] = IF c.V[vx] > c.V[vy] THEN 1 ELSE 0]
    IN  AdvancePC([c1 EXCEPT !.V[vx] = U8(c1.V[vx] - c1.V[vy] + 256)])

shiftRight(c, vx) ==
    LET c1 == [c EXCEPT !.V[15] = And(c.V[vx], 1)]
    IN  AdvancePC([c1 EXCEPT !.V[vx] = Shr(c1.V[vx], 1)])

subYX(c, vx, vy) ==
    LET c1 == [c EXCEPT !.V[15] = IF c.V[vy] > c.V[vx] THEN 1 ELSE 0]
    IN  AdvancePC([c1 EXCEPT !.V[vx] = U8(c1.V[vy] - c1.V[vx] + 256)])

(* An SHL Vx that takes the flag from the least-significant bit *)
shiftLeft_LowBit(c, vx) ==
    LET c1 == [c EXCEPT !.V[15] = And(c.V[vx], 1)]
    IN  AdvancePC([c1 EXCEPT !.V[vx] = Shl8(c1.V[vx], 1)])

shiftLeft(c, vx) ==
    LET c1 == [c EXCEPT !.V[15] = And(Shr(c.V[vx], 7), 1)]
    IN  AdvancePC([c1 EXCEPT !.V[vx] = Shl8(c1.V[vx], 1)])

(* Instructions Annn, Bnnn, Cxkk *)
loadI(c, nnn) == AdvancePC([c EXCEPT !.I = nnn])

jumpV0(c, nnn) == [c EXCEPT !.PC = U16(c.V[0] + nnn)]

(* r is the value of rand.Intn(0xFF), in 0..254 *)
rand(c, vx, kk, r) == AdvancePC([c EXCEPT !.V[vx] = And(kk, U8(r))])

(* Instruction Dxyn.  x and y are bytes: x+byte(j) and y+byte(i) wrap at 256; *)
(* GFX is indexed [y+i][x+j] without reduction modulo 32 or 64.              *)
RECURSIVE drawBits(_, _, _, _, _, _)
drawBits(c, x, y, i, value, j) ==
    IF j >= 8 THEN Ok(c)
    ELSE IF U8(y + i) > 64 THEN Fail(c, ErrDrawX)
    ELSE IF And(value, Shr(128, j)) # 0
         THEN LET row == U8(y + i)
                  col == U8(x + j)
              IN  IF row >= GfxRows \/ col >= GfxCols THEN Crash(c)
                  ELSE LET c1 == IF GfxAt(c.GFX, row, col) = 1 THEN [c EXCEPT !.V[15] = 1] ELSE c
                           c2 == [c1 EXCEPT !.GFX = GfxPut(c1.GFX, row, col,
                                                        Xor(GfxAt(c1.GFX, row, col), 1))]
                       IN  drawBits(c2, x, y, i, value, j + 1)
         ELSE drawBits(c, x, y, i, value, j + 1)

RECURSIVE drawRows(_, _, _, _, _)
drawRows(c, x, y, n, i) ==
    IF i >= n THEN Ok(c)
    ELSE IF U8(y + i) > 32 THEN Fail(c, ErrDrawY)
    ELSE IF c.I + i >= RamSize THEN Crash(c)
    ELSE LET res == drawBits(c, x, y, i, RamAt(c.RAM, c.I + i), 0)
         IN  IF res.crash \/ res.err # Nil THEN res
             ELSE drawRows(res.cpu, x, y, n, i + 1)

draw(c, vx, vy, n) ==
    LET res == drawRows(c, c.V[vx], c.V[vy], n, 0)
    IN  IF res.crash \/ res.err # Nil THEN res
        ELSE Ok(AdvancePC([res.cpu EXCEPT !.DF = TRUE]))

(* Instructions Ex9E, ExA1: Key is indexed by V[vx] unchecked *)
skipIfKey(c, vx) ==
    IF c.V[vx] >= NumKeys THEN Crash(c)
    ELSE Ok(AdvancePC(IF c.Key[c.V[vx]] THEN AdvancePC(c) ELSE c))

skipIfKeyNot(c, vx) ==
    IF c.V[vx] >= NumKeys THEN Crash(c)
    ELSE Ok(AdvancePC(IF ~c.Key[c.V[vx]] THEN AdvancePC(c) ELSE c))

(* Instructions Fx07, Fx15, Fx18, Fx1E, Fx29 *)
loadXDT(c, vx) == AdvancePC([c EXCEPT !.V[vx] = c.DT])

loadDTX(c, vx) == AdvancePC([c EXCEPT !.DT = c.V[vx]])

(* An LD ST, Vx that also raises the draw flag *)
loadSTX_Redraw(c, vx) == AdvancePC([c EXCEPT !.ST = c.V[vx], !.DF = TRUE])
loadSTX(c, vx) == AdvancePC([c EXCEPT !.ST = c.V[vx]])

addIX(c, vx) == AdvancePC([c EXCEPT !.I = c.I + c.V[vx]])

(* An LD F, Vx that takes the digit itself as the address *)
loadIX_NoScale(c, vx) == AdvancePC([c EXCEPT !.I = c.V[vx]])
loadIX(c, vx) == AdvancePC([c EXCEPT !.I = c.V[vx] * 5])

(* Instruction Fx33: the loop writes RAM[I+2] first *)
(* An LD B, Vx that stores the ones digit first *)
loadBCD_Reversed(c, vx) ==
    LET dec == c.V[vx]
    IN  IF c.I + 2 >= RamSize THEN Crash(c)
        ELSE Ok(AdvancePC([c EXCEPT !.RAM =
                RamPut(RamPut(RamPut(c.RAM, c.I, dec % 10),
                              c.I + 1, (dec \div 10) % 10),
                       c.I + 2, ((dec \div 10) \div 10) % 10)]))

loadBCD(c, vx) ==
    LET dec == c.V[vx]
    IN  IF c.I + 2 >= RamSize THEN Crash(c)
        ELSE Ok(AdvancePC([c EXCEPT !.RAM =
                RamPut(RamPut(RamPut(c.RAM, c.I + 2, dec % 10),
                              c.I + 1, (dec \div 10) % 10),
                       c.I, ((dec \div 10) \div 10) % 10)]))

(* Instruction Fx55: writes RAM[I+i] for i = 0..vx, up to the first index out of range *)
saveV(c, vx) ==
    LET new(a) == IF a >= c.I /\ a <= c.I + vx THEN c.V[a - c.I] ELSE RamAt(c.RAM, a)
        c1 == [c EXCEPT !.RAM = [a \in {x \in 0..(RamSize - 1) : new(x) # 0} |-> new(a)]]
    IN  IF c.I + vx >= RamSize THEN Crash(c1) ELSE Ok(AdvancePC(c1))

(* Instruction Fx65: reads RAM[I+i] for i = 0..vx, up to the first index out of range *)
(* An LD Vx, [I] that reads nothing *)
loadV_NotImplemented(c, vx) ==
    Ok(AdvancePC(c))

loadV(c, vx) ==
    LET c1 == [c EXCEPT !.V = [i \in 0..(NumRegs - 1) |->
                                  IF i <= vx /\ c.I + i < RamSize THEN RamAt(c.RAM, c.I + i)
                                  ELSE c.V[i]]]
    IN  IF c.I + vx >= RamSize THEN Crash(c1) ELSE Ok(AdvancePC(c1))

(* Instruction Fx0A: one pass of the inner loop of CPU.loadKey over the      *)
(* pending events q.  Every event is consumed; each mapped key-down stores  *)
(* its key in V[vx] and clears wait, and the loop goes on to the next event.*)
RECURSIVE loadKeyPass(_, _, _, _)
loadKeyPass(c, vx, q, wait) ==
    IF q = <<>> THEN [cpu |-> c, wait |-> wait]
    ELSE LET e == Head(q)
         IN  IF e.type = "KeyDown" /\ e.sc \in DOMAIN keypad
             THEN loadKeyPass([c EXCEPT !.V[vx] = keypad[e.sc]], vx, Tail(q), FALSE)
             ELSE loadKeyPass(c, vx, Tail(q), wait)

IsLoadKey(op) == And(op, 61695) = 61450

IsRand(op) == And(op, 61440) = 49152

(* CPU.execute.  r is the random number drawn by Cxkk.  m000, m00F and m0FF *)
(* are opCode & 0xF000, opCode & 0xF00F and opCode & 0xF0FF.  The branch of *)
(* Fx0A (CPU.loadKey, which blocks) is taken by the actions EnterLoadKey    *)
(* and LoadKeyPass.                                                         *)
execute(c, op, r) ==
    LET vx == Shr(And(op, 3840), 8)
        vy == Shr(And(op, 240), 4)
        nnn == And(op, 4095)
        kk == And(op, 255)
        n == And(op, 15)
        m000 == And(op, 61440)
        m00F == And(op, 61455)
        m0FF == And(op, 61695)
    IN  IF op = 224 THEN Ok(clear(c))
        ELSE IF op = 238 THEN ret(c)
        ELSE IF m000 = 4096 THEN jump(c, nnn)
        ELSE IF m000 = 8192 THEN call(c, nnn)
        ELSE IF m000 = 12288 THEN Ok(skipIf(c, vx, kk))
        ELSE IF m000 = 16384 THEN Ok(skipIfNot(c, vx, kk))
        ELSE IF m00F = 20480 THEN Ok(skipIfXY(c, vx, vy))
        ELSE IF m000 = 24576 THEN Ok(load(c, vx, kk))
        ELSE IF m000 = 28672 THEN Ok(add(c, vx, kk))
        ELSE IF m00F = 32768 THEN Ok(loadXY(c, vx, vy))
        ELSE IF m00F = 32769 THEN Ok(orXY(c, vx, vy))
        ELSE IF m00F = 32770 THEN Ok(andXY(c, vx, vy))
        ELSE IF m00F = 32771 THEN Ok(xorXY(c, vx, vy))
        ELSE IF m00F = 32772 THEN Ok(addXY(c, vx, vy))
        ELSE IF m00F = 32773 THEN Ok(subXY(c, vx, vy))
        ELSE IF m00F = 32774 THEN Ok(shiftRight(c, vx))
        ELSE IF m00F = 32775 THEN Ok(subYX(c, vx, vy))
        ELSE IF m00F = 32782 THEN Ok(shiftLeft(c, vx))
        ELSE IF m00F = 36864 THEN Ok(skipIfNotXY(c, vx, vy))
        ELSE IF m000 = 40960 THEN Ok(loadI(c, nnn))
        ELSE IF m000 = 45056 THEN Ok(jumpV0(c, nnn))
        ELSE IF m000 = 49152 THEN Ok(rand(c, vx, kk, r))
        ELSE IF m000 = 53248 THEN draw(c, vx, vy, n)
        ELSE IF m0FF = 57502 THEN skipIfKey(c, vx)
        ELSE IF m0FF = 57505 THEN skipIfKeyNot(c, vx)
        ELSE IF m0FF = 61447 THEN Ok(loadXDT(c, vx))
        ELSE IF IsLoadKey(op) THEN Ok(c)
        ELSE IF m0FF = 61461 THEN Ok(loadDTX(c, vx))
        ELSE IF m0FF = 61464 THEN Ok(loadSTX(c, vx))
        ELSE IF m0FF = 61470 THEN Ok(addIX(c, vx))
        ELSE IF m0FF = 61481 THEN Ok(loadIX(c, vx))
        ELSE IF m0FF = 61491 THEN loadBCD(c, vx)
        ELSE IF m0FF = 61525 THEN saveV(c, vx)
        ELSE IF m0FF = 61541 THEN loadV(c, vx)
        ELSE Ok(c)

(* A CPU.Cycle that fetches whatever PC is *)
Fetches_Always(c) == TRUE

(* The guard of CPU.Cycle: getOpCode is called only when it holds *)
Fetches(c) == c.PC < CyclePcLimit

(* Timers that are decremented without the test for 0 *)
decTimers_Wrap(c) ==
    [c EXCEPT !.DT = U8(c.DT - 1 + 256),
              !.ST = U8(c.ST - 1 + 256)]

(* The timer part of CPU.Cycle: run after every executed instruction *)
decTimers(c) ==
    [c EXCEPT !.DT = IF c.DT > 0 THEN c.DT - 1 ELSE c.DT,
              !.ST = IF c.ST > 0 THEN c.ST - 1 ELSE c.ST]

(* A CPU.Cycle that decrements the timers also when it does not fetch *)
Cycle_IdleTimers(c, r) ==
    IF c.PC < CyclePcLimit
    THEN LET res == execute(c, getOpCode(c, c.PC), r)
         IN  IF res.crash \/ res.err # Nil THEN res
             ELSE Ok(decTimers(res.cpu))
    ELSE Ok(decTimers(c))

(* CPU.Cycle *)
Cycle(c, r) ==
    IF c.PC < CyclePcLimit
    THEN LET res == execute(c, getOpCode(c, c.PC), r)
         IN  IF res.crash \/ res.err # Nil THEN res
             ELSE Ok(decTimers(res.cpu))
    ELSE Ok(c)

(* PPU.Poll over the pending events q: stops at the first quit event *)
RECURSIVE Poll(_, _)
Poll(key, q) ==
    IF q = <<>> THEN [Key |-> key, events |-> q, exit |-> FALSE]
    ELSE LET e == Head(q)
         IN  IF e.type = "Quit" THEN [Key |-> key, events |-> Tail(q), exit |-> TRUE]
             ELSE IF e.type = "KeyUp" /\ e.sc \in DOMAIN keypad
                  THEN Poll([key EXCEPT ![keypad[e.sc]] = FALSE], Tail(q))
             ELSE IF e.type = "KeyDown" /\ e.sc \in DOMAIN keypad
                  THEN Poll([key EXCEPT ![keypad[e.sc]] = TRUE], Tail(q))
             ELSE Poll(key, Tail(q))

----------------------------------------------------------------------------
(* The ROMs the machine is run on.  A ROM is given by the opcodes at its    *)
(* (even) addresses; every other byte up to its last opcode is 0.           *)

RomBytes(prog) ==
    LET last == CHOOSE a \in DOMAIN prog : \A b \in DOMAIN prog : b <= a
    IN  [i \in 1..(last + 2 - RomStart) |->
            LET a == RomStart + i - 1
                w == a - (a % 2)
            IN  IF w \in DOMAIN prog
                THEN (IF a % 2 = 0 THEN Shr(prog[w], 8) ELSE And(prog[w], 255))
                ELSE 0]

RomAddLd == (512 :> \h6005) @@ (514 :> \h7003)

RomTimers == (512 :> \h6005) @@ (514 :> \hF015) @@ (516 :> \hF018) @@ (518 :> \h1206)

RomCallRet == (512 :> \h1300) @@ (768 :> \h2400) @@ (770 :> \h1302) @@ (1024 :> \h00EE)

RomRecurse == (512 :> \h2200)

RomRet == (512 :> \h00EE)

RomWaitKey == (512 :> \hF30A) @@ (514 :> \hF40A) @@ (516 :> \h1204)

RomDrawY == (512 :> \h6121) @@ (514 :> \hD011)

(* CLS, then the font glyph of 0 drawn twice at (0, 0) *)
RomDrawFont == (512 :> \h00E0) @@ (514 :> \hD005) @@ (516 :> \hD005)

(* The glyph of 0 drawn at (0, 0), then timer, key and register            *)
(* instructions, then JP V0 to 0xFFC + 0xFF, beyond the last fetch address *)
RomDrawWaitIdle ==
    (512 :> \hD005) @@ (514 :> \h6120) @@ (516 :> \hF115) @@ (518 :> \hF118)
    @@ (520 :> \hF20A) @@ (522 :> \hE29E) @@ (524 :> \h8120) @@ (526 :> \h7101)
    @@ (528 :> \hF11E) @@ (530 :> \hA210) @@ (532 :> \h60FF) @@ (534 :> \hBFFC)

RomJump(nnn) == (512 :> 4096 + nnn)

RomCall(nnn) == (512 :> 8192 + nnn)

RomUnknown(op) == (512 :> \h6005) @@ (514 :> op)

JumpTargets == {512, 514, 4028, 4029, 4094, 4095}

CallTargets == {514, 4028, 4029, 4095}

UnknownOps == {0, \h5011, \h8018, \hF000}

Roms ==
    {RomBytes(p) : p \in {RomAddLd, RomTimers, RomCallRet, RomRecurse, RomRet,
                          RomWaitKey, RomDrawY, RomDrawFont, RomDrawWaitIdle}}
    \cup {RomBytes(RomJump(nnn)) : nnn \in JumpTargets}
    \cup {RomBytes(RomCall(nnn)) : nnn \in CallTargets}
    \cup {RomBytes(RomUnknown(op)) : op \in UnknownOps}

(* ROMs that set up registers and execute one instruction on them.  The    *)
(* register indices and the byte values are drawn from these sets.         *)
ExecRegs == {0, 7, 15}

ExecBytes == {0, 1, 5, 9, 128, 255}

(* LD Vx, a ; SE Vx, kk (hi = 3) or SNE Vx, kk (hi = 4) *)
RomSkipImm(hi, x, a, kk) ==
    (512 :> \h6000 + 256 * x + a) @@ (514 :> 4096 * hi + 256 * x + kk)

(* LD Vx, a ; LD Vy, b ; then op on Vx, Vy: 5xy0, 9xy0 or 8xyN *)
RomRegReg(hi, lo, x, y, a, b) ==
    (512 :> \h6000 + 256 * x + a) @@ (514 :> \h6000 + 256 * y + b)
        @@ (516 :> 4096 * hi + 256 * x + 16 * y + lo)

(* LD V0, xv ; LD V1, yv ; LD VF, vf ; LD I, 0x210 ; DRW V0, V1, n twice;   *)
(* the sprite at 0x210 has the rows 0xFF and 0x81.                         *)
RomDraw(xv, yv, vf, n) ==
    (512 :> \h6000 + xv) @@ (514 :> \h6100 + yv) @@ (516 :> \h6F00 + vf)
        @@ (518 :> \hA210) @@ (520 :> \hD010 + n) @@ (522 :> \hD010 + n)
        @@ (528 :> \hFF81)

(* V0 = a, Vx = b, I = 0x300, LD [I], Vx; then V0 and Vx are overwritten    *)
(* and LD Vx, [I] follows.                                                  *)
RomSaveLoad(x, a, b) ==
    (512 :> \h6000 + a) @@ (514 :> \h6000 + 256 * x + b) @@ (516 :> \hA300)
        @@ (518 :> \hF055 + 256 * x) @@ (520 :> \h6000 + U8(a + 1))
        @@ (522 :> \h6000 + 256 * x + U8(b + 7)) @@ (524 :> \hF065 + 256 * x)

(* LD V0, v0 ; JP V0, nnn *)
RomJumpV0(v0, nnn) == (512 :> \h6000 + v0) @@ (514 :> \hB000 + nnn)

JumpV0Inputs == {<<2, 768>>, <<0, 4092>>, <<0, 4093>>, <<0, 4094>>, <<1, 4095>>, <<255, 4095>>}

(* LD V0, 0xFF ; LD [I], V0 with I = 0: a store into the font table *)
RomSaveLow == (512 :> \h60FF) @@ (514 :> \hF055)

(* LD Vx, v ; LD I, 0x300 ; LD B, Vx *)
RomBcd(x, v) == (512 :> \h6000 + 256 * x + v) @@ (514 :> \hA300) @@ (516 :> \hF033 + 256 * x)

(* LD V0, v ; LD DT, V0 ; LD V1, DT *)
RomTimerReadBack(v) == (512 :> \h6000 + v) @@ (514 :> \hF015) @@ (516 :> \hF107)

(* LD V0, v ; LD ST, V0 *)
RomSound(v) == (512 :> \h6000 + v) @@ (514 :> \hF018)

(* RND Vx, kk *)
RomRand(x, kk) == (512 :> \hC000 + 256 * x + kk)

(* LD Vx, d ; LD F, Vx *)
RomFont(x, d) == (512 :> \h6000 + 256 * x + d) @@ (514 :> \hF029 + 256 * x)

(* LD V0, v ; SKP V0 (lo = 0x9E) or SKNP V0 (lo = 0xA1) *)
RomKeyIndex(lo, v) == (512 :> \h6000 + v) @@ (514 :> \hE000 + lo)

(* LD V0, 0xFF ; LD I, 0xFFF ; ADD I, V0 ; then op, an instruction that    *)
(* reads or writes RAM at I                                                *)
RomAddI(op) == (512 :> \h60FF) @@ (514 :> \hAFFF) @@ (516 :> \hF01E) @@ (518 :> op)

TimerBytes == {0, 1, 5, 255}

KeyIndexes == {0, 15, 16, 255}

DrawXs == {0, 56, 57, 63, 64, 255}

DrawYs == {0, 30, 31, 32, 255}

DrawNs == {0, 1, 2, 15}

ExecRoms ==
    {RomBytes(RomSkipImm(hi, x, a, kk)) :
        hi \in {3, 4}, x \in ExecRegs, a \in ExecBytes, kk \in ExecBytes}
    \cup {RomBytes(RomRegReg(hi, 0, x, y, a, b)) :
        hi \in {5, 9}, x \in ExecRegs, y \in ExecRegs, a \in ExecBytes, b \in ExecBytes}
    \cup {RomBytes(RomRegReg(8, lo, x, y, a, b)) :
        lo \in {4, 5, 6, 7, 14}, x \in ExecRegs, y \in ExecRegs,
        a \in ExecBytes, b \in ExecBytes}
    \cup {RomBytes(RomDraw(xv, yv, vf, n)) :
        xv \in DrawXs, yv \in DrawYs, vf \in {0, 1}, n \in DrawNs}
    \cup {RomBytes(RomSaveLoad(x, a, b)) :
        x \in {0, 1, 7, 15}, a \in ExecBytes, b \in ExecBytes}
    \cup {RomBytes(RomJumpV0(in[1], in[2])) : in \in JumpV0Inputs}
    \cup {RomBytes(RomSaveLow), RomBytes(RomJump(0)), RomBytes(RomJump(4095)),
          RomBytes(RomCall(4095)), RomBytes(RomAddLd)}
    \cup {RomBytes(RomBcd(x, v)) : x \in {0, 15}, v \in 0..255}
    \cup {RomBytes(RomTimerReadBack(v)) : v \in TimerBytes}
    \cup {RomBytes(RomSound(v)) : v \in TimerBytes}
    \cup {RomBytes(RomRand(0, 255)), RomBytes(RomRand(7, 15))}
    \cup {RomBytes(RomFont(x, d)) : x \in {0, 15}, d \in 0..15}
    \cup {RomBytes(RomKeyIndex(lo, v)) : lo \in {\h9E, \hA1}, v \in KeyIndexes}
    \cup {RomBytes(RomAddI(op)) : op \in {\hF033, \hF055, \hF065, \hD111}}

(* The -fps flag of main, as the characters typed: the default "120", a    *)
(* word, "0", "-1" and the empty string                                    *)
DefaultFps == <<"1", "2", "0">>

FpsFlags == {DefaultFps, <<"a", "b", "c">>, <<"0">>, <<"-", "1">>, <<>>}

DigitOf ==
    ("0" :> 0) @@ ("1" :> 1) @@ ("2" :> 2) @@ ("3" :> 3) @@ ("4" :> 4)
        @@ ("5" :> 5) @@ ("6" :> 6) @@ ("7" :> 7) @@ ("8" :> 8) @@ ("9" :> 9)

RECURSIVE AtoiDigits(_, _)
AtoiDigits(s, acc) ==
    IF s = <<>> THEN [ok |-> TRUE, n |-> acc]
    ELSE IF Head(s) \notin DOMAIN DigitOf THEN [ok |-> FALSE, n |-> 0]
    ELSE AtoiDigits(Tail(s), 10 * acc + DigitOf[Head(s)])

(* strconv.Atoi: an optional sign and at least one decimal digit *)
Atoi(s) ==
    LET signed == s # <<>> /\ Head(s) \in {"+", "-"}
        digits == IF signed THEN Tail(s) ELSE s
        r == AtoiDigits(digits, 0)
    IN  IF digits = <<>> \/ ~r.ok THEN [ok |-> FALSE, n |-> 0]
        ELSE [ok |-> TRUE, n |-> IF signed /\ Head(s) = "-" THEN 0 - r.n ELSE r.n]

(* time.Second in nanoseconds *)
Second == 1000000000

(* Chip8.Run(n) up to its loop: time.Second / time.Duration(n) panics for   *)
(* n = 0 (integer divide by zero); for a period <= 0 time.Tick returns a   *)
(* nil channel, on which the select of the loop blocks for ever.           *)
RunStart(n) ==
    IF n = 0 THEN "halted"
    ELSE LET period == IF n > 0 THEN Second \div n ELSE 0 - (Second \div (0 - n))
         IN  IF period <= 0 THEN "stalled" ELSE "tick"

(* A ROM of len bytes: JP 0x200, zeros, and 0xEE as its last byte *)
BigRom(len) ==
    [i \in 1..len |-> IF i = 1 THEN 18 ELSE IF i = len THEN 238 ELSE 0]

(* The files main can be started on: four of the ROMs above (one of them   *)
(* waits for keys), the empty file, a ROM that fills RAM to its last byte, *)
(* one that is a byte longer, and a file that cannot be read.              *)
Files ==
    {[ok |-> TRUE, rom |-> r] :
        r \in {RomBytes(p) : p \in {RomAddLd, RomRet, RomWaitKey, RomDrawFont}}
               \cup {<<>>, BigRom(RamSize - RomStart), BigRom(RamSize - RomStart + 1)}}
    \cup {[ok |-> FALSE, rom |-> <<>>]}

(* The events the input boundary delivers: quit, key-down and key-up of two *)
(* mapped keys, key-down of a key outside the keypad.                       *)
Events ==
    {[type |-> "Quit", sc |-> ""],
     [type |-> "KeyDown", sc |-> "1"],
     [type |-> "KeyDown", sc |-> "Q"],
     [type |-> "KeyUp", sc |-> "1"],
     [type |-> "KeyDown", sc |-> "P"]}

----------------------------------------------------------------------------
(* Chip8.Init, Chip8.Load: the state when Chip8.Run starts *)

Init ==
    /\ \E rom \in Roms : /\ cpu = LoadROM(loadFont(ZeroCPU), rom)
                        /\ file = [ok |-> TRUE, rom |-> rom]
    /\ events = <<>>
    /\ pc = "tick"
    /\ waitVx = 0
    /\ opCode = 0
    /\ err = Nil
    /\ halt = "none"
    /\ exit = FALSE
    /\ ticks = 0
    /\ dtDecs = 0
    /\ stDecs = 0
    /\ screen = {}
    /\ gfxBefore = {}
    /\ fetchPC = -1
    /\ depth = 0
    /\ saved = [V |-> ZeroCPU.V, I |-> 0, vx |-> -1]
    /\ held = [k \in 0..(NumKeys - 1) |-> FALSE]
    /\ fps = DefaultFps

(* The same start on the ROMs that exercise single instructions *)
ExecInit ==
    /\ \E rom \in ExecRoms : /\ cpu = LoadROM(loadFont(ZeroCPU), rom)
                            /\ file = [ok |-> TRUE, rom |-> rom]
    /\ events = <<>>
    /\ pc = "tick"
    /\ waitVx = 0
    /\ opCode = 0
    /\ err = Nil
    /\ halt = "none"
    /\ exit = FALSE
    /\ ticks = 0
    /\ dtDecs = 0
    /\ stDecs = 0
    /\ screen = {}
    /\ gfxBefore = {}
    /\ fetchPC = -1
    /\ depth = 0
    /\ saved = [V |-> ZeroCPU.V, I |-> 0, vx |-> -1]
    /\ held = [k \in 0..(NumKeys - 1) |-> FALSE]
    /\ fps = DefaultFps

(* A driver that drops the error returned by CPU.Cycle *)
RunAfterCycle_IgnoreErr(res) ==
    IF res.crash THEN "crash" ELSE "none"

(* Chip8.Run, after CPU.Cycle returned res: panic on an error, else go on *)
RunAfterCycle(res) ==
    IF res.crash THEN "crash"
    ELSE IF res.err # Nil THEN "fault"
    ELSE "none"

(* Chip8.Run, after PPU.Poll returned exit: break leaves the select only,  *)
(* and the for loop takes the next tick.                                   *)
RunAfterPoll(ex) == "tick"

(* A driver that clears the draw flag without calling PPU.Draw *)
RunDraw_NoDraw(c, scr) ==
    IF c.DF
    THEN [cpu |-> [c EXCEPT !.DF = FALSE], screen |-> scr]
    ELSE [cpu |-> c, screen |-> scr]

(* Chip8.Run, after CPU.Cycle: when the draw flag is set, PPU.Draw renders *)
(* and presents the whole of cpu.GFX, and then the flag is cleared.  scr is *)
(* the frame presented before.                                             *)
RunDraw(c, scr) ==
    IF c.DF
    THEN [cpu |-> [c EXCEPT !.DF = FALSE], screen |-> c.GFX]
    ELSE [cpu |-> c, screen |-> scr]

(* The tone signal Chip8.Run gives the APU at the end of a tick with CPU c: *)
(* Run has no statement that reads cpu.ST or calls the APU, so the signal  *)
(* is off whatever ST is.                                                  *)
RunTone(c) == FALSE

(* Chip8.Run from the return of CPU.Cycle to the end of the tick: panic,   *)
(* or draw and clear the draw flag, then poll.                             *)
FinishTick(res) ==
    LET h == RunAfterCycle(res)
        d == RunDraw(res.cpu, screen)
        c1 == d.cpu
        p == Poll(c1.Key, events)
    IN  /\ halt' = h
        /\ err' = res.err
        /\ IF h # "none"
           THEN /\ cpu' = res.cpu
                /\ pc' = "halted"
                /\ UNCHANGED <<events, exit, screen>>
           ELSE /\ cpu' = [c1 EXCEPT !.Key = p.Key]
                /\ screen' = d.screen
                /\ events' = p.events
                /\ exit' = p.exit
                /\ pc' = RunAfterPoll(p.exit)

(* One tick of Chip8.Run on an instruction other than Fx0A *)
Tick ==
    /\ pc = "tick"
    /\ ticks < MaxTicks
    /\ LET op == IF cpu.PC < CyclePcLimit THEN getOpCode(cpu, cpu.PC) ELSE opCode
       IN  /\ ~(cpu.PC < CyclePcLimit /\ IsLoadKey(op))
           /\ \E r \in (IF cpu.PC < CyclePcLimit /\ IsRand(op) THEN 0..(RandN - 1) ELSE {0}) :
                LET res == Cycle(cpu, r)
                    ran == cpu.PC < CyclePcLimit /\ ~res.crash /\ res.err = Nil
                    ex == execute(cpu, op, r)
                IN  /\ FinishTick(res)
                    /\ dtDecs' = IF ran /\ ex.cpu.DT > 0 THEN dtDecs + 1 ELSE dtDecs
                    /\ stDecs' = IF ran /\ ex.cpu.ST > 0 THEN stDecs + 1 ELSE stDecs
                    /\ depth' = IF ran /\ And(op, 61440) = 8192 THEN depth + 1
                                ELSE IF ran /\ op = 238 THEN depth - 1
                                ELSE depth
                    /\ saved' = IF ran /\ And(op, 61695) = 61525
                                THEN [V |-> cpu.V, I |-> cpu.I, vx |-> Shr(And(op, 3840), 8)]
                                ELSE saved
           /\ opCode' = op
    /\ ticks' = ticks + 1
    /\ gfxBefore' = cpu.GFX
    /\ fetchPC' = IF Fetches(cpu) THEN cpu.PC ELSE fetchPC
    /\ UNCHANGED <<waitVx, file, held, fps>>

(* A tick of Chip8.Run whose instruction is Fx0A: CPU.Cycle calls           *)
(* CPU.loadKey, which loops until a key-down event arrives.                 *)
EnterLoadKey ==
    /\ pc = "tick"
    /\ ticks < MaxTicks
    /\ cpu.PC < CyclePcLimit
    /\ IsLoadKey(getOpCode(cpu, cpu.PC))
    /\ opCode' = getOpCode(cpu, cpu.PC)
    /\ waitVx' = Shr(And(getOpCode(cpu, cpu.PC), 3840), 8)
    /\ pc' = "loadKey"
    /\ ticks' = ticks + 1
    /\ gfxBefore' = cpu.GFX
    /\ fetchPC' = cpu.PC
    /\ UNCHANGED <<cpu, events, err, halt, exit, dtDecs, stDecs, screen, depth, saved, file, held, fps>>

(* One pass of the loop of CPU.loadKey over the events pending now.  When a *)
(* key-down was seen, sdl.PollEvent has returned nil, CPU.loadKey advances *)
(* PC and returns, and CPU.Cycle decrements the timers and returns nil.    *)
LoadKeyPass ==
    /\ pc = "loadKey"
    /\ LET p == loadKeyPass(cpu, waitVx, events, TRUE)
       IN  IF p.wait
           THEN /\ cpu' = p.cpu
                /\ UNCHANGED <<pc, dtDecs, stDecs>>
           ELSE LET c1 == AdvancePC(p.cpu)
                IN  /\ cpu' = decTimers(c1)
                    /\ pc' = "poll"
                    /\ dtDecs' = IF c1.DT > 0 THEN dtDecs + 1 ELSE dtDecs
                    /\ stDecs' = IF c1.ST > 0 THEN stDecs + 1 ELSE stDecs
    /\ events' = <<>>
    /\ UNCHANGED <<waitVx, opCode, err, halt, exit, ticks, screen, gfxBefore, fetchPC,
                   depth, saved, file, held, fps>>

(* Chip8.Run after the CPU.Cycle of an Fx0A returned: draw when the draw    *)
(* flag is set, then PPU.Poll over the events that arrived since the last  *)
(* sdl.PollEvent of CPU.loadKey.                                           *)
LoadKeyPoll ==
    /\ pc = "poll"
    /\ LET d == RunDraw(cpu, screen)
           c1 == d.cpu
           p == Poll(c1.Key, events)
       IN  /\ cpu' = [c1 EXCEPT !.Key = p.Key]
           /\ screen' = d.screen
           /\ events' = p.events
           /\ exit' = p.exit
           /\ pc' = RunAfterPoll(p.exit)
    /\ UNCHANGED <<waitVx, opCode, err, halt, ticks, dtDecs, stDecs, gfxBefore, fetchPC,
                   depth, saved, file, held, fps>>

(* The host delivers an input event to the SDL queue *)
Enqueue ==
    /\ pc # "halted"
    /\ Len(events) < MaxQueue
    /\ \E e \in Events :
          /\ events' = Append(events, e)
          /\ held' = IF e.type \in {"KeyDown", "KeyUp"} /\ e.sc \in DOMAIN keypad
                     THEN [held EXCEPT ![keypad[e.sc]] = (e.type = "KeyDown")]
                     ELSE held
    /\ UNCHANGED <<cpu, pc, waitVx, opCode, err, halt, exit, ticks, dtDecs, stDecs, screen,
                   gfxBefore, fetchPC, depth, saved, file, fps>>

Next == Tick \/ EnterLoadKey \/ LoadKeyPass \/ LoadKeyPoll \/ Enqueue

Spec == Init /\ [][Next]_vars

(* main after Chip8.Init, before Chip8.Load: the font is in RAM *)
LoadInit ==
    /\ file \in Files
    /\ cpu = loadFont(ZeroCPU)
    /\ events = <<>>
    /\ pc = "load"
    /\ waitVx = 0
    /\ opCode = 0
    /\ err = Nil
    /\ halt = "none"
    /\ exit = FALSE
    /\ ticks = 0
    /\ dtDecs = 0
    /\ stDecs = 0
    /\ screen = {}
    /\ gfxBefore = {}
    /\ fetchPC = -1
    /\ depth = 0
    /\ saved = [V |-> ZeroCPU.V, I |-> 0, vx |-> -1]
    /\ held = [k \in 0..(NumKeys - 1) |-> FALSE]
    /\ fps \in FpsFlags

(* main: Chip8.Load and panic(err); then strconv.Atoi of the -fps flag and  *)
(* panic(err); then Chip8.Run up to its loop.                               *)
Load ==
    /\ pc = "load"
    /\ IF ~file.ok
       THEN /\ err' = ErrRead
            /\ halt' = "fault"
            /\ pc' = "halted"
            /\ UNCHANGED cpu
       ELSE IF LoadROMPanics(file.rom)
       THEN /\ cpu' = LoadROM(cpu, file.rom)
            /\ halt' = "crash"
            /\ pc' = "halted"
            /\ UNCHANGED err
       ELSE /\ cpu' = LoadROM(cpu, file.rom)
            /\ IF ~Atoi(fps).ok
               THEN /\ err' = ErrAtoi
                    /\ halt' = "fault"
                    /\ pc' = "halted"
               ELSE /\ pc' = RunStart(Atoi(fps).n)
                    /\ halt' = IF RunStart(Atoi(fps).n) = "halted" THEN "crash" ELSE halt
                    /\ UNCHANGED err
    /\ UNCHANGED <<events, waitVx, opCode, exit, ticks, dtDecs, stDecs, screen,
                   gfxBefore, fetchPC, depth, saved, file, held, fps>>

LoadNext == Load \/ Tick \/ EnterLoadKey \/ LoadKeyPass \/ LoadKeyPoll \/ Enqueue

LoadSpec == LoadInit /\ [][LoadNext]_vars

(* Chip8.Run on the single-instruction ROMs, with no input event arriving *)
ExecNext == Tick

ExecSpec == ExecInit /\ [][ExecNext]_vars

----------------------------------------------------------------------------
(* Steps of the driver, for the properties below *)

(* The step is an instruction tick that fetches and executes an opcode *)
InstructionTick == ticks' = ticks + 1 /\ cpu.PC < CyclePcLimit

(* The opcode that an instruction tick taken now fetches *)
Fetched == getOpCode(cpu, cpu.PC)

Nnn(op) == And(op, 4095)

IsCall(op) == And(op, 61440) = 8192

IsJump(op) == And(op, 61440) = 4096

HasQuit(q) == \E i \in 1..Len(q) : q[i].type = "Quit"

IsKeyDown(e) == e.type = "KeyDown" /\ e.sc \in DOMAIN keypad

HasKeyDown(q) == \E i \in 1..Len(q) : IsKeyDown(q[i])

(* The key code of the first key-down event of q *)
FirstKey(q) ==
    LET i == CHOOSE k \in 1..Len(q) : IsKeyDown(q[k]) /\ \A m \in 1..(k - 1) : ~IsKeyDown(q[m])
    IN  keypad[q[i].sc]

----------------------------------------------------------------------------
(* C1: timer decay is decoupled from instruction throughput: with the      *)
(* instruction rate at 10 times the timer rate, every 10 instruction ticks *)
(* decrement a non-zero DT, and a non-zero ST, exactly once; so after t    *)
(* instruction ticks each timer has been decremented at most ceil(t / 10)  *)
(* times.                                                                  *)
C1_TimersDecoupled ==
    /\ dtDecs * 10 <= ticks + 9
    /\ stDecs * 10 <= ticks + 9

(* C2: once PPU.Poll has returned true, Chip8.Run halts: no further        *)
(* instruction tick is taken and no CPU.Cycle changes the machine.         *)
C2_QuitHalts == [][exit => (ticks' = ticks /\ cpu' = cpu)]_vars

(* C3: when CPU.Cycle returns a non-nil error the driver halts with that   *)
(* fault, and no further instruction tick is taken nor is the machine      *)
(* changed: the returned error is never ignored.                           *)
C3_FaultHalts ==
    [][err # Nil => (pc = "halted" /\ halt = "fault" /\ ticks' = ticks /\ cpu' = cpu)]_vars

C3_Witness == err # Nil /\ pc = "halted" /\ halt = "fault" /\ ticks < MaxTicks

(* C4: an opcode matching no known pattern (0x0000, 5xy1, 8xy8, Fx00)      *)
(* changes no register, memory, stack, I or display state, and PC advances *)
(* by exactly 2 in that instruction tick, without halting.                 *)
C4_UnknownAdvances ==
    [][(InstructionTick /\ Fetched \in UnknownOps) =>
          /\ cpu'.PC = U16(cpu.PC + 2)
          /\ cpu'.V = cpu.V /\ cpu'.RAM = cpu.RAM /\ cpu'.Stack = cpu.Stack
          /\ cpu'.SP = cpu.SP /\ cpu'.I = cpu.I /\ cpu'.GFX = cpu.GFX
          /\ pc' # "halted"]_vars

(* C5: a quit event that arrives during an Fx0A wait before any key-down   *)
(* is not consumed or discarded by the wait: it stays pending until the    *)
(* driver's poll reports it.                                               *)
C5_QuitSurvivesWait ==
    [][(pc = "loadKey" /\ HasQuit(events) /\ ~HasKeyDown(events)) =>
          (HasQuit(events') \/ exit')]_vars

(* C6: when an Fx0A wait ends, V[x] holds the key code of the first        *)
(* key-down event observed since the wait began (a later key-down of the   *)
(* same batch does not overwrite it) and PC has advanced by exactly 2.     *)
C6_FirstKeyDownWins ==
    [][(pc = "loadKey" /\ pc' # "loadKey") =>
          /\ cpu'.V[waitVx] = FirstKey(events)
          /\ cpu'.PC = U16(cpu.PC + 2)]_vars

(* C7: 2nnn executed at PC = p with SP = s < 16 yields stack[s] = p + 2,   *)
(* SP = s + 1 and PC = nnn, for every target nnn; 00EE executed with       *)
(* SP = s + 1 then yields SP = s and PC = stack[s], with no extra advance. *)
C7_CallRet ==
    [][/\ (InstructionTick /\ IsCall(Fetched) /\ cpu.SP < StackLen) =>
             /\ cpu'.Stack[cpu.SP] = cpu.PC + 2
             /\ cpu'.SP = cpu.SP + 1
             /\ cpu'.PC = Nnn(Fetched)
             /\ pc' # "halted"
       /\ (InstructionTick /\ Fetched = 238 /\ cpu.SP > 0 /\ cpu.SP <= StackLen) =>
             /\ cpu'.SP = cpu.SP - 1
             /\ cpu'.PC = cpu.Stack[cpu.SP - 1]]_vars

(* C8: 16 nested CALLs succeed, and a CALL executed with SP = 16 (the      *)
(* 17th) is reported by the executor as a stack-overflow fault: CPU.Cycle  *)
(* returns the error of call and no stack slot is written.                 *)
C8_StackOverflowFault ==
    [][(InstructionTick /\ IsCall(Fetched) /\ Nnn(Fetched) <= JumpPcLimit) =>
          IF cpu.SP < StackLen
          THEN pc' # "halted" /\ cpu'.SP = cpu.SP + 1
          ELSE halt' = "fault" /\ err' = ErrCallSP /\ cpu'.Stack = cpu.Stack]_vars

(* C9: 00EE executed with SP = 0 fails with a stack-underflow fault: the   *)
(* error check of ret fires, SP does not wrap below 0 and PC is not loaded *)
(* from the stack.                                                         *)
C9_StackUnderflowFault ==
    [][(InstructionTick /\ Fetched = 238 /\ cpu.SP = 0) =>
          /\ halt' = "fault" /\ err' = ErrRet
          /\ cpu'.SP <= StackLen
          /\ cpu'.PC = cpu.PC]_vars

(* C10: 1nnn sets PC = nnn without fault for every nnn < 4095 and fails    *)
(* with an invalid-address fault only for nnn >= 4095.                     *)
C10_JumpRange ==
    [][(InstructionTick /\ IsJump(Fetched)) =>
          IF Nnn(Fetched) < 4095
          THEN cpu'.PC = Nnn(Fetched) /\ err' = Nil /\ pc' # "halted"
          ELSE halt' = "fault" /\ err' = ErrJump]_vars

----------------------------------------------------------------------------
(* Operand fields of an opcode, for the properties below *)

OpX(op) == Shr(And(op, 3840), 8)

OpY(op) == Shr(And(op, 240), 4)

OpKK(op) == And(op, 255)

OpN(op) == And(op, 15)

OpHi(op) == Shr(op, 12)

(* C11: for every register x, every V[x] and every kk in 0..255 (0x00 and  *)
(* 0xFF included), 3xkk advances PC by 4 if V[x] = kk and by 2 otherwise,  *)
(* 4xkk advances PC by 4 if V[x] # kk and by 2 otherwise, and neither      *)
(* changes any register.                                                   *)
C11_SkipImm ==
    [][(InstructionTick /\ OpHi(Fetched) \in {3, 4}) =>
          LET eq == cpu.V[OpX(Fetched)] = OpKK(Fetched)
              skip == IF OpHi(Fetched) = 3 THEN eq ELSE ~eq
          IN  /\ cpu'.PC = cpu.PC + (IF skip THEN 4 ELSE 2)
              /\ cpu'.V = cpu.V
              /\ cpu'.I = cpu.I
              /\ pc' # "halted"]_vars

(* 3xkk was executed with V[x] = kk = 0xFF and skipped *)
C11_Witness ==
    /\ OpHi(opCode) = 3 /\ OpKK(opCode) = 255
    /\ cpu.V[OpX(opCode)] = 255
    /\ ticks = 2 /\ cpu.PC = 518

(* C12: 5xy0 advances PC by 4 iff the values V[x] and V[y] are equal (by 2 *)
(* otherwise) and 9xy0 advances PC by 4 iff V[x] # V[y] (by 2 otherwise);  *)
(* the comparison is on the register contents, not on the indices x and y. *)
C12_SkipReg ==
    [][(InstructionTick /\ OpHi(Fetched) \in {5, 9} /\ OpN(Fetched) = 0) =>
          LET eq == cpu.V[OpX(Fetched)] = cpu.V[OpY(Fetched)]
              skip == IF OpHi(Fetched) = 5 THEN eq ELSE ~eq
          IN  /\ cpu'.PC = cpu.PC + (IF skip THEN 4 ELSE 2)
              /\ cpu'.V = cpu.V
              /\ pc' # "halted"]_vars

(* 5xy0 was executed on two different registers of equal value and skipped *)
C12_Witness ==
    /\ OpHi(opCode) = 5 /\ OpN(opCode) = 0
    /\ OpX(opCode) # OpY(opCode)
    /\ cpu.V[OpX(opCode)] = cpu.V[OpY(opCode)]
    /\ ticks = 3 /\ cpu.PC = 520

(* The instruction tick executes 8xyN with N = lo *)
IsAlu(lo) == InstructionTick /\ OpHi(Fetched) = 8 /\ OpN(Fetched) = lo

(* C13: for all byte values V[x], V[y] with x # F, after 8xy4              *)
(* V[x] = (V[x] + V[y]) mod 256, VF = 1 if the unwrapped sum exceeds 255   *)
(* and 0 otherwise (0xFF + 0x01 gives V[x] = 0x00, VF = 1), and PC has     *)
(* advanced by 2.                                                          *)
C13_AddCarry ==
    [][(IsAlu(4) /\ OpX(Fetched) # 15) =>
          LET sum == cpu.V[OpX(Fetched)] + cpu.V[OpY(Fetched)]
          IN  /\ cpu'.V[OpX(Fetched)] = sum % 256
              /\ cpu'.V[15] = (IF sum > 255 THEN 1 ELSE 0)
              /\ cpu'.PC = cpu.PC + 2
              /\ pc' # "halted"]_vars

(* 8xy4 was executed on 0xFF + 0x01 in registers other than VF *)
C13_Witness ==
    /\ OpHi(opCode) = 8 /\ OpN(opCode) = 4
    /\ OpX(opCode) = 0 /\ OpY(opCode) = 7
    /\ ticks = 3 /\ cpu.PC = 518
    /\ cpu.V[7] = 1 /\ cpu.V[0] = 0 /\ cpu.V[15] = 1

(* C14: 8xy5 is a true subtraction with borrow flag: for all byte values   *)
(* V[x], V[y] with x # F, VF = 1 if V[x] > V[y] and 0 otherwise, and       *)
(* V[x] = (V[x] - V[y]) mod 256 (0x05 - 0x09 gives VF = 0, V[x] = 0xFC);   *)
(* symmetrically 8xy7 sets VF = 1 if V[y] > V[x] and 0 otherwise, and      *)
(* V[x] = (V[y] - V[x]) mod 256.                                           *)
C14_SubBorrow ==
    [][/\ (IsAlu(5) /\ OpX(Fetched) # 15) =>
             /\ cpu'.V[15] = (IF cpu.V[OpX(Fetched)] > cpu.V[OpY(Fetched)] THEN 1 ELSE 0)
             /\ cpu'.V[OpX(Fetched)] = (cpu.V[OpX(Fetched)] - cpu.V[OpY(Fetched)]) % 256
       /\ (IsAlu(7) /\ OpX(Fetched) # 15) =>
             /\ cpu'.V[15] = (IF cpu.V[OpY(Fetched)] > cpu.V[OpX(Fetched)] THEN 1 ELSE 0)
             /\ cpu'.V[OpX(Fetched)] = (cpu.V[OpY(Fetched)] - cpu.V[OpX(Fetched)]) % 256]_vars

(* C15: for every byte V[x] with x # F, 8xy6 sets VF to the old least-     *)
(* significant bit and V[x] to old >> 1 (0x05 gives VF = 1, V[x] = 0x02),  *)
(* and 8xyE sets VF to the old most-significant bit and V[x] to            *)
(* (old << 1) mod 256; every opcode 8xyE reaches the SHL handler, not      *)
(* LD Vx, Vy and not the unknown-opcode branch, so PC advances by 2.       *)
C15_Shifts ==
    [][/\ (IsAlu(6) /\ OpX(Fetched) # 15) =>
             /\ cpu'.V[15] = cpu.V[OpX(Fetched)] % 2
             /\ cpu'.V[OpX(Fetched)] = cpu.V[OpX(Fetched)] \div 2
             /\ cpu'.PC = cpu.PC + 2
       /\ (IsAlu(14) /\ OpX(Fetched) # 15) =>
             /\ cpu'.V[15] = cpu.V[OpX(Fetched)] \div 128
             /\ cpu'.V[OpX(Fetched)] = (cpu.V[OpX(Fetched)] * 2) % 256
             /\ cpu'.PC = cpu.PC + 2]_vars

(* 8xyE was executed on V[x] = 0x80 with V[y] = 0x05: V[x] = 0, VF = 1 *)
C15_Witness ==
    /\ OpHi(opCode) = 8 /\ OpN(opCode) = 14
    /\ OpX(opCode) = 0 /\ OpY(opCode) = 7
    /\ ticks = 3 /\ cpu.PC = 518
    /\ cpu.V[7] = 5 /\ cpu.V[0] = 0 /\ cpu.V[15] = 1

(* The flag that 8xyN defines on the registers of c: carry, not-borrow,    *)
(* or the bit shifted out.                                                 *)
AluFlag(c, op) ==
    LET a == c.V[OpX(op)]
        b == c.V[OpY(op)]
    IN  IF OpN(op) = 4 THEN (IF a + b > 255 THEN 1 ELSE 0)
        ELSE IF OpN(op) = 5 THEN (IF a > b THEN 1 ELSE 0)
        ELSE IF OpN(op) = 6 THEN a % 2
        ELSE IF OpN(op) = 7 THEN (IF b > a THEN 1 ELSE 0)
        ELSE a \div 128

(* The instruction tick executes Dxyn *)
IsDraw == InstructionTick /\ OpHi(Fetched) = 13

(* C16: every instruction that writes VF as a flag (8xy4, 8xy5, 8xy6,      *)
(* 8xy7, 8xyE, Dxyn) writes it as its last register write: for every       *)
(* operand choice, x = F included, VF right after the instruction is the   *)
(* flag, 0 or 1, and not the arithmetic or shift result.                   *)
C16_FlagWrittenLast ==
    [][/\ (InstructionTick /\ OpHi(Fetched) = 8 /\ OpN(Fetched) \in {4, 5, 6, 7, 14}) =>
             cpu'.V[15] = AluFlag(cpu, Fetched)
       /\ (IsDraw /\ pc' # "halted") => cpu'.V[15] \in {0, 1}]_vars

(* The pixels that Dxyn toggles when the coordinates wrap: bit j (most-    *)
(* significant first) of sprite row i lands at row (V[y] + i) mod 32 and   *)
(* column (V[x] + j) mod 64.                                               *)
WrappedSprite(c, op) ==
    {<<(c.V[OpY(op)] + i) % GfxRows, (c.V[OpX(op)] + j) % GfxCols>> :
        <<i, j>> \in {ij \in (0..(OpN(op) - 1)) \X (0..7) :
                        (RamAt(c.RAM, c.I + ij[1]) \div Pow2(7 - ij[2])) % 2 = 1}}

(* C17: Dxyn wraps instead of faulting: for all V[x], V[y] in 0..255 and n *)
(* in 0..15 the sprite pixel of row i and bit j is XORed at column         *)
(* (V[x] + j) mod 64 and row (V[y] + i) mod 32, and the draw always        *)
(* completes with PC advanced by 2.                                        *)
C17_DrawWraps ==
    [][IsDraw =>
          LET sprite == WrappedSprite(cpu, Fetched)
          IN  /\ pc' # "halted"
              /\ cpu'.PC = cpu.PC + 2
              /\ cpu'.GFX = (cpu.GFX \ sprite) \cup (sprite \ cpu.GFX)]_vars

(* C18: after Dxyn, VF is 1 if at least one previously set pixel was       *)
(* erased by this draw and 0 otherwise, whatever VF held before the draw   *)
(* (row 0xFF drawn at (0,0) on a blank buffer leaves 8 pixels and VF = 0). *)
C18_CollisionFlag ==
    [][(IsDraw /\ pc' # "halted") =>
          cpu'.V[15] = (IF cpu.GFX \ cpu'.GFX # {} THEN 1 ELSE 0)]_vars

(* C19: drawing the same sprite twice at the same coordinates, with I and  *)
(* the sprite bytes unchanged, restores GFX to its contents before the     *)
(* first draw; starting from a blank buffer, VF is 0 after the first draw  *)
(* and 1 after the second, for every sprite with at least one set bit.     *)
C19_DrawTwice ==
    [][/\ (IsDraw /\ pc' # "halted" /\ cpu.GFX = {} /\ cpu'.GFX # {}) =>
             cpu'.V[15] = 0
       /\ (IsDraw /\ pc' # "halted" /\ opCode = Fetched /\ ticks > 0
              /\ OpX(Fetched) # 15 /\ OpY(Fetched) # 15) =>
             /\ cpu'.GFX = gfxBefore
             /\ (gfxBefore = {} /\ cpu.GFX # {}) => cpu'.V[15] = 1]_vars

(* C20: after an instruction tick that sets the draw flag (00E0 or Dxyn),  *)
(* PPU.Draw is called with the current GFX before the next instruction     *)
(* tick and the flag is cleared after it: while Run is not halted, the     *)
(* draw flag is false between ticks and the frame presented last is the    *)
(* current GFX, so no frame that set the flag is skipped.                  *)
C20_FramePresented ==
    pc # "halted" => (~cpu.DF /\ screen = cpu.GFX)

(* Dxyn lit pixels, Run presented them and cleared the flag *)
C20_Witness ==
    /\ OpHi(opCode) = 13 /\ pc = "tick"
    /\ cpu.GFX # {} /\ screen = cpu.GFX /\ ~cpu.DF

(* The instruction tick executes Fx55 / Fx65 *)
IsSaveV == InstructionTick /\ And(Fetched, 61695) = 61525

IsLoadV == InstructionTick /\ And(Fetched, 61695) = 61541

(* C21: Fx55 followed later by Fx65 with the same x and the same I         *)
(* restores V[0..x] to exactly their values at the time of the save,       *)
(* whatever was written to those registers in between; neither             *)
(* instruction changes I, and Fx65 changes no register above x.            *)
C21_SaveLoadRoundTrip ==
    [][/\ (IsSaveV /\ pc' # "halted") => cpu'.I = cpu.I
       /\ (IsLoadV /\ pc' # "halted") =>
             /\ cpu'.I = cpu.I
             /\ \A r \in 0..(NumRegs - 1) : r > OpX(Fetched) => cpu'.V[r] = cpu.V[r]
             /\ (saved.vx = OpX(Fetched) /\ saved.I = cpu.I) =>
                    \A r \in 0..OpX(Fetched) : cpu'.V[r] = saved.V[r]]_vars

(* FF65 ran after FF55 with the same I, V0 and VF overwritten in between,  *)
(* and the registers are those of the save.                                *)
C21_Witness ==
    /\ opCode = \hFF65 /\ saved.vx = 15 /\ saved.I = cpu.I
    /\ ticks = 7 /\ cpu.PC = 526
    /\ cpu.V = saved.V /\ cpu.V[0] = 255 /\ cpu.V[15] = 128

(* The instruction tick executes Fx33 *)
IsLoadBCD == InstructionTick /\ And(Fetched, 61695) = 61491

(* C22: for every V[x] in 0..255, Fx33 stores the hundreds digit at RAM[I], *)
(* the tens digit at RAM[I+1] and the ones digit at RAM[I+2] (each digit   *)
(* at most 9, and 100*RAM[I] + 10*RAM[I+1] + RAM[I+2] = V[x]), leaves V[x] *)
(* and I unchanged and advances PC by 2.                                   *)
C22_Bcd ==
    [][(IsLoadBCD /\ cpu.I + 2 < RamSize) =>
          LET h == RamAt(cpu'.RAM, cpu.I)
              t == RamAt(cpu'.RAM, cpu.I + 1)
              o == RamAt(cpu'.RAM, cpu.I + 2)
              v == cpu.V[OpX(Fetched)]
          IN  /\ h <= 9 /\ t <= 9 /\ o <= 9
              /\ 100 * h + 10 * t + o = v
              /\ h = v \div 100 /\ o = v % 10
              /\ cpu'.V = cpu.V
              /\ cpu'.I = cpu.I
              /\ cpu'.PC = cpu.PC + 2
              /\ pc' # "halted"]_vars

(* Fx33 ran on V[x] = 156 and RAM[I..I+2] is 1, 5, 6 *)
C22_Witness ==
    /\ And(opCode, 61695) = 61491 /\ cpu.V[OpX(opCode)] = 156
    /\ ticks = 3 /\ cpu.PC = 518 /\ cpu.I = 768
    /\ RamAt(cpu.RAM, 768) = 1 /\ RamAt(cpu.RAM, 769) = 5 /\ RamAt(cpu.RAM, 770) = 6

(* C23: the tone signal of the audio boundary is on in exactly the states *)
(* where ST > 0: raised once Fx18 loads a non-zero value into ST, on while *)
(* ST > 0, dropped when ST reaches 0.                                      *)
C23_ToneFollowsST ==
    RunTone(cpu) <=> cpu.ST > 0

(* C24: loading a ROM of length L <= 3584 copies byte i to RAM[0x200 + i]  *)
(* for every i < L, leaves RAM[0x000..0x1FF] (the font table included)     *)
(* unchanged and sets PC = 0x200 before the first instruction tick; a load *)
(* failure (I/O error or L > 3584) is fatal, and no instruction tick is    *)
(* ever executed for that run.                                             *)
C24_LoadRom ==
    [][/\ (pc = "load" /\ pc' # "load" /\ file.ok /\ Len(file.rom) <= 3584) =>
             /\ ticks' = 0
             /\ cpu'.PC = 512
             /\ \A i \in 0..(Len(file.rom) - 1) : RamAt(cpu'.RAM, 512 + i) = file.rom[i + 1]
             /\ \A a \in 0..511 : RamAt(cpu'.RAM, a) = RamAt(cpu.RAM, a)
             /\ \A a \in 0..(Len(fonts) - 1) : RamAt(cpu'.RAM, a) = fonts[a + 1]
       /\ (pc = "load" /\ pc' # "load" /\ ~(file.ok /\ Len(file.rom) <= 3584)) =>
             pc' = "halted" /\ halt' # "none"
       /\ ~(file.ok /\ Len(file.rom) <= 3584) => ticks' = 0
       /\ pc = "load" => ticks' = 0]_vars

(* A ROM of 3584 bytes was loaded up to RAM[4095] and Run took a tick *)
C24_Witness ==
    /\ file.ok /\ Len(file.rom) = 3584
    /\ pc = "tick" /\ ticks = 1
    /\ RamAt(cpu.RAM, 4095) = 238 /\ RamAt(cpu.RAM, 0) = 240

(* C25: every execution invariant violation (stack overflow on CALL,      *)
(* stack underflow on RET, jump to an invalid address, out-of-range draw)  *)
(* reaches the driver as an error value returned by CPU.Cycle: whenever an *)
(* instruction tick stops the machine, it is with such an error and not    *)
(* with a runtime panic such as an array index out of range.               *)
C25_TypedFaults ==
    [][(InstructionTick /\ pc' = "halted") => (halt' = "fault" /\ err' # Nil)]_vars

(* C26: in every reachable state 0 <= SP <= 16, and SP is the number of    *)
(* used stack slots: successful CALLs minus successful RETs.               *)
C26_StackPointer ==
    /\ cpu.SP >= 0 /\ cpu.SP <= StackLen
    /\ cpu.SP = depth

(* C27: before every opcode fetch (every call of getOpCode from CPU.Cycle) *)
(* PC and PC + 1 are valid memory addresses: PC + 1 <= 4095.               *)
C27_FetchInRange ==
    fetchPC # -1 => (fetchPC >= 0 /\ fetchPC + 1 <= RamSize - 1)

(* JP V0 set PC to 0xFFF + 0xFF and Run keeps ticking without a fetch *)
C27_Witness ==
    /\ cpu.PC = 4350 /\ pc = "tick" /\ ticks > 3
    /\ fetchPC = 514

(* C28: after initialization, no instruction writes a RAM byte at an       *)
(* address below 0x200 and no opcode is fetched from an address below      *)
(* 0x200.                                                                  *)
C28_LowMemory ==
    [][/\ \A a \in 0..(RomStart - 1) : RamAt(cpu'.RAM, a) = RamAt(cpu.RAM, a)
       /\ fetchPC' >= RomStart \/ fetchPC' = -1]_vars

(* C29: a jump that addresses PC outside valid memory is fatal, for 1nnn,  *)
(* 2nnn and Bnnn: Bnnn sets PC = V[0] + nnn, and when that sum lies beyond *)
(* the last valid instruction address the driver halts with a fault        *)
(* instead of continuing to tick.                                          *)
C29_JumpOutOfMemory ==
    [][/\ (InstructionTick /\ OpHi(Fetched) \in {1, 2} /\ Nnn(Fetched) > CyclePcLimit) =>
             pc' = "halted" /\ halt' = "fault"
       /\ (InstructionTick /\ OpHi(Fetched) = 11) =>
             IF cpu.V[0] + Nnn(Fetched) > CyclePcLimit
             THEN pc' = "halted" /\ halt' = "fault"
             ELSE cpu'.PC = cpu.V[0] + Nnn(Fetched) /\ pc' # "halted"]_vars

(* A call of CPU.Cycle whose instruction was executed without error *)
Executed == (InstructionTick /\ pc' = "tick") \/ (pc = "loadKey" /\ pc' = "poll")

(* C30: on each timer decrement step DT and ST are each reduced by exactly *)
(* 1 if greater than 0 and stay 0 otherwise; neither ever wraps below 0    *)
(* (to 255), and a timer only increases through Fx15 (DT) or Fx18 (ST).    *)
C30_TimersSaturate ==
    [][/\ (Executed /\ And(Fetched, 61695) # \hF015) =>
             cpu'.DT = (IF cpu.DT > 0 THEN cpu.DT - 1 ELSE 0)
       /\ (Executed /\ And(Fetched, 61695) # \hF018) =>
             cpu'.ST = (IF cpu.ST > 0 THEN cpu.ST - 1 ELSE 0)
       /\ (Executed /\ And(Fetched, 61695) = \hF015) =>
             cpu'.DT = (IF cpu.V[OpX(Fetched)] > 0 THEN cpu.V[OpX(Fetched)] - 1 ELSE 0)
       /\ (Executed /\ And(Fetched, 61695) = \hF018) =>
             cpu'.ST = (IF cpu.V[OpX(Fetched)] > 0 THEN cpu.V[OpX(Fetched)] - 1 ELSE 0)
       /\ ~Executed => (cpu'.DT = cpu.DT /\ cpu'.ST = cpu.ST)
       /\ cpu'.DT \in 0..255 /\ cpu'.ST \in 0..255]_vars

(* Both timers were loaded with 5, counted down to 0 and stayed there *)
C30_Witness ==
    /\ cpu.DT = 0 /\ cpu.ST = 0
    /\ dtDecs = 5 /\ stDecs = 5 /\ ticks > 8

(* C31: after an instruction tick that executes Fx15 (resp. Fx18) DT      *)
(* (resp. ST) equals V[x], and an Fx07 executed as the very next           *)
(* instruction reads back exactly the value written by Fx15.               *)
C31_TimerReadBack ==
    [][/\ (Executed /\ And(Fetched, 61695) = \hF015) => cpu'.DT = cpu.V[OpX(Fetched)]
       /\ (Executed /\ And(Fetched, 61695) = \hF018) => cpu'.ST = cpu.V[OpX(Fetched)]
       /\ (Executed /\ And(Fetched, 61695) = \hF007 /\ And(opCode, 61695) = \hF015
             /\ ticks > 0 /\ OpX(Fetched) # OpX(opCode)) =>
             cpu'.V[OpX(Fetched)] = cpu.V[OpX(opCode)]]_vars

(* C32: Cxkk sets V[x] = r & kk where r is a random byte of the full range *)
(* 0..255: every value of 0..255, 0xFF included, is a possible r (with     *)
(* kk = 0xFF every byte is a possible result), the result has no bit set   *)
(* outside kk, no other register changes and PC advances by 2.             *)
C32_RandFullRange ==
    [][(InstructionTick /\ OpHi(Fetched) = 12) =>
          LET x == OpX(Fetched)
              kk == OpKK(Fetched)
          IN  /\ And(cpu'.V[x], kk) = cpu'.V[x]
              /\ \A q \in 0..(NumRegs - 1) : q # x => cpu'.V[q] = cpu.V[q]
              /\ cpu'.PC = cpu.PC + 2
              /\ \A v \in 0..255 :
                    \E r \in 0..(RandN - 1) : rand(cpu, x, kk, r).V[x] = And(v, kk)]_vars

(* C33: after initialization the 5-byte glyph of every hex digit d starts  *)
(* at RAM address 5*d, the font occupies exactly RAM[0x000..0x04F] (the    *)
(* bytes from 0x050 up to the ROM are still 0), and Fx29 with V[x] = d     *)
(* sets I to 5*d and advances PC by 2.                                     *)
C33_FontGlyphs ==
    [][/\ ticks = 0 =>
             /\ \A d \in 0..15 : \A i \in 0..4 :
                   RamAt(cpu.RAM, 5 * d + i) = fonts[5 * d + i + 1]
             /\ \A a \in Len(fonts)..(RomStart - 1) : RamAt(cpu.RAM, a) = 0
       /\ (InstructionTick /\ And(Fetched, 61695) = \hF029
              /\ cpu.V[OpX(Fetched)] <= 15) =>
             /\ cpu'.I = 5 * cpu.V[OpX(Fetched)]
             /\ cpu'.PC = cpu.PC + 2
             /\ pc' = "tick"]_vars

(* LD F, VF with VF = 0xF has pointed I at the glyph of F, at address 75 *)
C33_Witness ==
    /\ opCode = \hFF29 /\ cpu.V[15] = 15
    /\ cpu.I = 75 /\ cpu.PC = 516
    /\ \A i \in 0..4 : RamAt(cpu.RAM, cpu.I + i) = fonts[76 + i]

(* A tick of Chip8.Run whose instruction is 00E0 or Dxyn *)
IsClsOrDraw == InstructionTick /\ (Fetched = \h00E0 \/ OpHi(Fetched) = 13)

(* C34: the display buffer is mutated only by 00E0 and Dxyn: every other   *)
(* instruction, every timer decrement and every keypad update leaves all   *)
(* pixels of GFX unchanged and does not set the draw flag, so no frame is  *)
(* presented either.                                                       *)
C34_OnlyClsAndDrawTouchGfx ==
    [][~IsClsOrDraw =>
          /\ cpu'.GFX = cpu.GFX
          /\ cpu'.DF => cpu.DF
          /\ screen' = screen
          /\ (ticks' = ticks + 1 /\ pc' # "loadKey") =>
                \A r \in (IF IsRand(Fetched) THEN 0..(RandN - 1) ELSE {0}) :
                LET res == Cycle(cpu, r)
                IN  res.cpu.GFX = cpu.GFX /\ (res.cpu.DF => cpu.DF)]_vars

(* The glyph of 0 is on the display; since then timers were set and        *)
(* decremented, the key 1 went down and SKP V2 was executed                *)
C34_Witness ==
    /\ opCode = \hE29E /\ pc = "tick"
    /\ cpu.GFX # {} /\ GfxAt(cpu.GFX, 0, 0) = 1 /\ screen = cpu.GFX
    /\ cpu.Key[1] /\ cpu.V[2] = 1
    /\ dtDecs > 2 /\ stDecs > 1 /\ cpu.ST > 0

(* The opcodes that CPU.execute dispatches to a handler *)
Recognized(op) ==
    \/ op \in {\h00E0, \h00EE}
    \/ OpHi(op) \in {1, 2, 3, 4, 6, 7, 10, 11, 12, 13}
    \/ And(op, 61455) \in {\h5000, \h8000, \h8001, \h8002, \h8003, \h8004, \h8005,
                           \h8006, \h8007, \h800E, \h9000}
    \/ And(op, 61695) \in {\hE09E, \hE0A1, \hF007, \hF00A, \hF015, \hF018, \hF01E,
                           \hF029, \hF033, \hF055, \hF065}

(* 00EE, 1nnn, 2nnn and Bnnn set PC explicitly *)
IsControl(op) == op = \h00EE \/ OpHi(op) \in {1, 2, 11}

(* 3xkk, 4xkk, 5xy0, 9xy0, Ex9E and ExA1 *)
IsSkip(op) ==
    \/ OpHi(op) \in {3, 4}
    \/ And(op, 61455) \in {\h5000, \h9000}
    \/ And(op, 61695) \in {\hE09E, \hE0A1}

(* C35: every recognized instruction that is not a jump, call, return or   *)
(* skip advances PC by exactly 2 in its instruction tick, and a skip       *)
(* advances it by exactly 2 or 4; the program 60 05 70 03 executed from    *)
(* PC = 0x200 ends with V0 = 8 and PC = 0x204.                             *)
C35_PcAdvance ==
    [][/\ (InstructionTick /\ pc' # "loadKey" /\ Recognized(Fetched)
              /\ ~IsControl(Fetched) /\ ~IsSkip(Fetched)) => cpu'.PC = cpu.PC + 2
       /\ (pc = "loadKey" /\ pc' # "loadKey") => cpu'.PC = cpu.PC + 2
       /\ (InstructionTick /\ IsSkip(Fetched)) => cpu'.PC \in {cpu.PC + 2, cpu.PC + 4}
       /\ (ticks' = 2 /\ \A i \in 0..3 :
                RamAt(cpu.RAM, RomStart + i) = <<\h60, 5, \h70, 3>>[i + 1]) =>
             cpu'.V[0] = 8 /\ cpu'.PC = \h204]_vars

(* C36: each array access made by an instruction is in range: the RAM      *)
(* accesses through I (Fx33 at I..I+2, Fx55 and Fx65 at I..I+x, Dxyn at    *)
(* I..I+n-1) have an index <= 4095, even after Fx1E has raised I, and the  *)
(* keypad lookups Key[V[x]] of Ex9E and ExA1 have V[x] <= 15.              *)
C36_IndexesInRange ==
    [][InstructionTick =>
          LET x == OpX(Fetched)
              m0FF == And(Fetched, 61695)
          IN  /\ m0FF \in {\hE09E, \hE0A1} =>
                    cpu.V[x] <= NumKeys - 1 /\ halt' # "crash"
              /\ m0FF = \hF033 => cpu.I + 2 <= RamSize - 1 /\ halt' # "crash"
              /\ m0FF \in {\hF055, \hF065} =>
                    cpu.I + x <= RamSize - 1 /\ halt' # "crash"
              /\ (OpHi(Fetched) = 13 /\ OpN(Fetched) > 0) =>
                    cpu.I + OpN(Fetched) - 1 <= RamSize - 1]_vars

(* C37: when PC >= 4094 at the start of CPU.Cycle, the cycle fetches and   *)
(* executes nothing, leaves every component of machine state unchanged     *)
(* (PC, V, I, SP, stack, RAM, GFX, draw flag; DT and ST are not            *)
(* decremented) and returns no error, so that the driver, which only       *)
(* refreshes the keypad, keeps ticking in that same state until a quit.    *)
C37_IdleBeyondMemory ==
    [][(ticks' = ticks + 1 /\ cpu.PC >= CyclePcLimit) =>
          /\ Cycle(cpu, 0) = Ok(cpu)
          /\ cpu' = [cpu EXCEPT !.Key = cpu'.Key]
          /\ err' = Nil /\ halt' = "none"
          /\ fetchPC' = fetchPC /\ opCode' = opCode
          /\ dtDecs' = dtDecs /\ stDecs' = stDecs
          /\ screen' = screen
          /\ ~exit' => pc' = "tick"]_vars

(* JP V0 has put PC at 0xFFC + 0xFF with both timers running and the glyph *)
(* of 0 on the display; several ticks later nothing has moved              *)
C37_Witness ==
    /\ cpu.PC = 4347 /\ opCode = \hBFFC /\ fetchPC = 534
    /\ ticks = MaxTicks /\ pc = "tick"
    /\ cpu.DT > 0 /\ cpu.ST > 0 /\ cpu.GFX # {} /\ cpu.V[0] = 255
    /\ dtDecs + cpu.DT = 32

(* C38: an instruction that returns a fault leaves machine state exactly   *)
(* as it was before the instruction: a failing 1nnn or 2nnn changes        *)
(* neither PC, SP nor any stack slot, and a failing Dxyn changes no pixel  *)
(* of GFX, not VF and not the draw flag.                                   *)
C38_FaultLeavesState ==
    [][(InstructionTick /\ halt' = "fault") =>
          /\ cpu' = cpu
          /\ OpHi(Fetched) \in {1, 2} =>
                cpu'.PC = cpu.PC /\ cpu'.SP = cpu.SP /\ cpu'.Stack = cpu.Stack
          /\ OpHi(Fetched) = 13 =>
                cpu'.GFX = cpu.GFX /\ cpu'.V[15] = cpu.V[15] /\ cpu'.DF = cpu.DF]_vars

(* C39: the keypad snapshot Key tracks the physical keys under every       *)
(* interleaving of input events with instruction ticks: once PPU.Poll has  *)
(* processed all pending events, Key[k] is true iff the last event for k   *)
(* was a key-down, the events that arrived during an Fx0A wait included.   *)
C39_KeyTracksKeys ==
    (pc = "tick" /\ events = <<>>) =>
        \A k \in 0..(NumKeys - 1) : cpu.Key[k] = held[k]


====
